---- MODULE Spec2Model ----
(***************************************************************************)
(* payment-svc: the charge / refund / order-cancellation handlers over the *)
(* Payment and IdempotencyKey tables and the payment_events exchange.      *)
(*                                                                         *)
(* Amounts are in hundredths (DecimalField, decimal_places=2).             *)
(* The store is a relational database used through transaction.atomic():   *)
(* a transaction's writes are buffered (wPay, wIdem) and become visible to *)
(* other requests at commit; a row written inside an open transaction is   *)
(* locked until that transaction ends; the unique key of IdempotencyKey    *)
(* makes a second insert of the same key wait for the first transaction.   *)
(* Reads see the committed rows (read committed, Django's default).        *)
(***************************************************************************)
EXTENDS Integers, Sequences, FiniteSets, Bags, TLC

\* ------------------------------------------------------------- bounds ---
MaxCalls == 4          \* requests, consumed messages and store failures in a run
MaxPayments == 2       \* Payment rows the AutoField sequence hands out
MaxAmount == 2         \* the amount of a charge, in hundredths

Procs == {"w1", "w2"}                       \* concurrent request workers
OrderIds == {1}
ChargeKeys == {"idem-key-a", "short"}
RefundKeys == {"idem-key-a", "idem-key-b"}
ChargeAmounts == {0, MaxAmount}
RefundAmounts == {{}} \cup {{a} : a \in 0..(MaxAmount + 1)}   \* {} = no amount given
CancelledOrders == OrderIds \cup {0}                         \* 0 = no order_id in the message

\* ---------------------------------------------------- program constants ---
NoPayment == 0         \* IdempotencyKey.payment is NULL
MinAmount == 1         \* Decimal('0.01')
MinKeyLen == 10

VARIABLES
    payments,       \* committed Payment rows: payment_id -> row
    idemKeys,       \* committed IdempotencyKey rows: key -> row
    events,         \* bag of messages published to the payment_events exchange
    nextPaymentId,  \* the AutoField sequence of Payment.payment_id
    pc,             \* where each worker is in its handler
    loc,            \* each worker's local variables
    wPay,           \* each worker's uncommitted Payment writes
    wIdem,          \* each worker's uncommitted IdempotencyKey writes
    response,       \* what the step just taken returned to its caller, if it returned
    calls,          \* handlers started so far
    gateway_calls,  \* history: bag of idempotency keys process_payment_gateway ran for
    created_obs,    \* history: bag of keys for which get_or_create returned created=True
    payment_key,    \* history: payment_id -> idempotency key of the charge that created it
    refund_applied  \* history: bag of refund ledger keys whose refund was committed

vars == <<payments, idemKeys, events, nextPaymentId, pc, loc, wPay, wIdem,
          response, calls, gateway_calls, created_obs, payment_key, refund_applied>>

store == <<payments, idemKeys>>
history == <<gateway_calls, created_obs, payment_key, refund_applied>>

NoRows == [i \in {} |-> 0]

NoRow == [payment_id |-> NoPayment, order_id |-> 0, amount |-> 0,
          status |-> "", refunded_amount |-> 0]

NoIdem == [status |-> "", payment |-> NoPayment]

\* the requests and the message a handler is called with
NoRequest == [op |-> ""]

ChargeRequest(order_id, amount, key) ==
    [op |-> "charge", order_id |-> order_id, amount |-> amount, idempotency_key |-> key]

RefundRequest(payment_id, key, req) ==
    [op |-> "refund", payment_id |-> payment_id, idempotency_key |-> key, amount |-> req]

CancelledMessage(order_id) == [op |-> "order.cancelled", order_id |-> order_id]

IdleLoc == [request |-> NoRequest, key |-> "", payment |-> NoRow, idem |-> NoIdem,
            created |-> FALSE, refund_amount |-> 0, todo |-> <<>>, code |-> ""]

NoResponse == [code |-> "", payment_id |-> NoPayment]

\* a response: what it says, and the payment it carries
Response(code, pid) == [code |-> code, payment_id |-> pid]

\* ------------------------------------------------------------ the store ---

\* Payment.objects.create(order_id, amount, method, status='PENDING')
NewPayment(pid, order_id, amount) ==
    [payment_id |-> pid, order_id |-> order_id, amount |-> amount,
     status |-> "PENDING", refunded_amount |-> 0]

\* the row get_or_create inserts: status defaults to PROCESSING
NewIdempotencyKey(payment) == [status |-> "PROCESSING", payment |-> payment]

\* (mutant) key without its unique constraint: an insert never waits
UniqueKeyWait_absent(k, p) == FALSE

\* key is unique: an insert of k waits while another open transaction holds
\* an uncommitted insert of k
UniqueKeyWait(k, p) ==
    /\ k \notin DOMAIN idemKeys
    /\ \E q \in Procs \ {p} : k \in DOMAIN wIdem[q]

\* save() of a row waits while another open transaction has written that row
PaymentRowLocked(i, p) == \E q \in Procs \ {p} : i \in DOMAIN wPay[q]

IdemRowLocked(k, p) == \E q \in Procs \ {p} : k \in DOMAIN wIdem[q]

\* leaving "with transaction.atomic()" without an exception
Commit(p) ==
    /\ payments' = wPay[p] @@ payments
    /\ idemKeys' = wIdem[p] @@ idemKeys
    /\ wPay' = [wPay EXCEPT ![p] = NoRows]
    /\ wIdem' = [wIdem EXCEPT ![p] = NoRows]

\* ------------------------------------------------------------ events.py ---

\* (mutant) without the "except Exception" of lines 75-77: a publication that
\* fails raises into the caller, which cannot go on
publish_payment_event_raising(msg, ok) ==
    ok /\ events' = events (+) SetToBag({msg})

\* publish_payment_event: True and the message on the exchange, or False
\* (no connection, or an exception while publishing) and nothing published
publish_payment_event(msg, ok) ==
    events' = IF ok THEN events (+) SetToBag({msg}) ELSE events

\* ------------------------------------------------------- serializers.py ---

ChargePaymentSerializer_is_valid(order_id, amount, key) ==
    /\ order_id >= 1
    /\ amount >= MinAmount
    /\ Len(key) >= MinKeyLen

RefundPaymentSerializer_is_valid(req) == \A a \in req : a > 0

\* ----------------------------------------------------------------- Init ---
Init ==
    /\ payments = NoRows
    /\ idemKeys = NoRows
    /\ events = EmptyBag
    /\ nextPaymentId = 1
    /\ pc = [p \in Procs |-> "idle"]
    /\ loc = [p \in Procs |-> IdleLoc]
    /\ wPay = [p \in Procs |-> NoRows]
    /\ wIdem = [p \in Procs |-> NoRows]
    /\ response = NoResponse
    /\ calls = 0
    /\ gateway_calls = EmptyBag
    /\ created_obs = EmptyBag
    /\ payment_key = NoRows
    /\ refund_applied = EmptyBag

\* a handler is entered
Enter(p) ==
    /\ pc[p] = "idle"
    /\ calls < MaxCalls
    /\ calls' = calls + 1

\* a handler goes on to its next step
Goto(p, label) ==
    /\ pc' = [pc EXCEPT ![p] = label]
    /\ response' = NoResponse

\* a handler returns
Return(p, r) ==
    /\ pc' = [pc EXCEPT ![p] = "idle"]
    /\ loc' = [loc EXCEPT ![p] = IdleLoc]
    /\ response' = r

\* Payment ids still free for the charges that are past get_or_create
PaymentIdsLeft ==
    MaxPayments - (nextPaymentId - 1) - Cardinality({q \in Procs : pc[q] = "charge_create"})

\* ------------------------------------------------- views.charge_payment ---

\* lines 36-45: the request is validated
charge_payment_validate(p, order_id, amount, key) ==
    /\ Enter(p)
    /\ LET request == ChargeRequest(order_id, amount, key) IN
       IF ChargePaymentSerializer_is_valid(order_id, amount, key)
       THEN /\ Goto(p, "charge_get_or_create")
            /\ loc' = [loc EXCEPT ![p] = [IdleLoc EXCEPT !.request = request, !.key = key]]
       ELSE Return(p, Response("validation_error", NoPayment))
    /\ UNCHANGED <<store, events, nextPaymentId, wPay, wIdem, history>>

\* (mutant) "not idem_key.payment" for "idem_key.payment" in line 60
replayable_unlinked(created, idem_key) ==
    ~created /\ idem_key.status = "COMPLETED" /\ idem_key.payment = NoPayment

\* lines 58-60: the key exists, is COMPLETED and has a payment
replayable(created, idem_key) ==
    ~created /\ idem_key.status = "COMPLETED" /\ idem_key.payment # NoPayment

\* lines 49-71: get_or_create on the idempotency key, and the replies for a
\* key that exists (the returns leave the atomic block, nothing was written)
charge_payment_get_or_create(p) ==
    /\ pc[p] = "charge_get_or_create"
    /\ ~UniqueKeyWait(loc[p].key, p)
    /\ LET key == loc[p].key
           created == key \notin DOMAIN idemKeys
           idem_key == IF created THEN NewIdempotencyKey(NoPayment) ELSE idemKeys[key]
       IN IF replayable(created, idem_key)
          THEN /\ Return(p, Response("already_processed", idem_key.payment))
               /\ UNCHANGED <<wIdem, created_obs>>
          ELSE IF ~created /\ idem_key.status = "PROCESSING"
          THEN /\ Return(p, Response("duplicate_request", NoPayment))
               /\ UNCHANGED <<wIdem, created_obs>>
          ELSE /\ PaymentIdsLeft > 0
               /\ Goto(p, "charge_create")
               /\ loc' = [loc EXCEPT ![p].idem = idem_key, ![p].created = created]
               /\ wIdem' = [wIdem EXCEPT ![p] = IF created THEN key :> idem_key ELSE NoRows]
               /\ created_obs' = IF created THEN created_obs (+) SetToBag({key})
                                 ELSE created_obs
    /\ UNCHANGED <<store, events, nextPaymentId, wPay, calls, gateway_calls,
                   payment_key, refund_applied>>

\* process_payment_gateway: the simulated gateway accepts or declines
process_payment_gateway(success) == [success |-> success]

\* lines 74-83: the PENDING payment is created and linked to the key
charge_payment_create(p) ==
    /\ pc[p] = "charge_create"
    /\ ~IdemRowLocked(loc[p].key, p)
    /\ LET data == loc[p].request
           payment == NewPayment(nextPaymentId, data.order_id, data.amount)
           idem_key == [loc[p].idem EXCEPT !.payment = payment.payment_id]
       IN /\ nextPaymentId' = nextPaymentId + 1
          /\ payment_key' = (payment.payment_id :> loc[p].key) @@ payment_key
          /\ wPay' = [wPay EXCEPT ![p] = (payment.payment_id :> payment)]
          /\ wIdem' = [wIdem EXCEPT ![p] = (loc[p].key :> idem_key)]
          /\ loc' = [loc EXCEPT ![p].payment = payment, ![p].idem = idem_key]
    /\ Goto(p, "charge_process")
    /\ UNCHANGED <<store, events, calls, gateway_calls, created_obs, refund_applied>>

\* (mutant) the decline branch without "payment.status = 'FAILED'" (line 114)
charge_status_unset_on_decline(payment, payment_result) ==
    IF payment_result.success THEN "SUCCESS" ELSE payment.status

\* lines 88-89 / 113-114: the status the payment takes from the gateway result
charge_status(payment, payment_result) ==
    IF payment_result.success THEN "SUCCESS" ELSE "FAILED"

\* (mutant) line 120 as idem_key.status = 'COMPLETED'
idem_status_always_completed(payment_result) == "COMPLETED"

\* lines 94 / 120: the status the key takes from the gateway result
idem_status(payment_result) ==
    IF payment_result.success THEN "COMPLETED" ELSE "FAILED"

\* lines 86-130: the gateway is called, the payment and the key take the
\* outcome and the event is published, all inside the atomic block
charge_payment_process(p, success, broker_ok) ==
    /\ pc[p] = "charge_process"
    /\ LET payment_result == process_payment_gateway(success)
           payment == [loc[p].payment EXCEPT
                         !.status = charge_status(loc[p].payment, payment_result)]
           idem_key == [loc[p].idem EXCEPT !.status = idem_status(payment_result)]
       IN /\ gateway_calls' = gateway_calls (+) SetToBag({loc[p].key})
          /\ wPay' = [wPay EXCEPT ![p] = (payment.payment_id :> payment)]
          /\ wIdem' = [wIdem EXCEPT ![p] = (loc[p].key :> idem_key)]
          /\ publish_payment_event(
                 [event_type |-> IF payment_result.success THEN "payment.succeeded"
                                                          ELSE "payment.failed",
                  payment_id |-> payment.payment_id,
                  order_id |-> payment.order_id,
                  amount |-> payment.amount,
                  via |-> loc[p].key], broker_ok)
          /\ loc' = [loc EXCEPT ![p].payment = payment, ![p].idem = idem_key,
                       ![p].code = IF payment_result.success THEN "payment_successful"
                                                             ELSE "payment_failed"]
    /\ Goto(p, "charge_commit")
    /\ UNCHANGED <<store, nextPaymentId, calls, created_obs, payment_key, refund_applied>>

\* lines 109-112 / 134-138: the return leaves the atomic block, which commits
charge_payment_commit(p) ==
    /\ pc[p] = "charge_commit"
    /\ Commit(p)
    /\ Return(p, Response(loc[p].code, loc[p].payment.payment_id))
    /\ UNCHANGED <<events, nextPaymentId, calls, history>>

charge_payment(p) ==
    \/ \E order_id \in OrderIds, amount \in ChargeAmounts, key \in ChargeKeys :
          charge_payment_validate(p, order_id, amount, key)
    \/ charge_payment_get_or_create(p)
    \/ charge_payment_create(p)
    \/ \E success \in BOOLEAN, broker_ok \in BOOLEAN :
          charge_payment_process(p, success, broker_ok)
    \/ charge_payment_commit(p)

\* ------------------------------------------------- views.refund_payment ---

\* line 182: refund_key = f"refund_{payment_id}_{idempotency_key}"
refund_key(payment_id, idempotency_key) ==
    "refund_" \o ToString(payment_id) \o "_" \o idempotency_key

\* (mutant) line 173 as payment.status == 'REFUNDED'
refundable_unless_refunded(payment) == payment.status # "REFUNDED"

\* line 173: payment.status != 'SUCCESS' is answered with invalid_status
refundable(payment) == payment.status = "SUCCESS"

\* line 199: data.get('amount', payment.amount - payment.refunded_amount)
effective_amount(req, payment) ==
    IF req = {} THEN payment.amount - payment.refunded_amount
    ELSE CHOOSE a \in req : TRUE

\* (mutant) < for > in line 203
exceeds_remaining_inverted(refund_amount, payment) ==
    LET remaining_amount == payment.amount - payment.refunded_amount
    IN refund_amount < remaining_amount

\* lines 202-203: refund_amount > remaining_amount
exceeds_remaining(refund_amount, payment) ==
    LET remaining_amount == payment.amount - payment.refunded_amount
    IN refund_amount > remaining_amount

\* (mutant) > for >= in line 212
refund_status_strict(payment) ==
    IF payment.refunded_amount > payment.amount THEN "REFUNDED" ELSE "PARTIAL_REFUND"

\* lines 212-215: the status after the refund
refund_status(payment) ==
    IF payment.refunded_amount >= payment.amount THEN "REFUNDED" ELSE "PARTIAL_REFUND"

\* lines 154-177: the request is validated and the payment is read (outside
\* any transaction) into the handler's local object; unknown ids and
\* non-SUCCESS payments are answered
refund_payment_load(p, payment_id, key, req) ==
    /\ Enter(p)
    /\ LET request == RefundRequest(payment_id, key, req) IN
       IF ~RefundPaymentSerializer_is_valid(req)
       THEN Return(p, Response("validation_error", NoPayment))
       ELSE IF payment_id \notin DOMAIN payments
       THEN Return(p, Response("not_found", NoPayment))
       ELSE IF ~refundable(payments[payment_id])
       THEN Return(p, Response("invalid_status", payment_id))
       ELSE /\ Goto(p, "refund_get_or_create")
            /\ loc' = [loc EXCEPT ![p] = [IdleLoc EXCEPT
                   !.request = request, !.key = refund_key(payment_id, key),
                   !.payment = payments[payment_id]]]
    /\ UNCHANGED <<store, events, nextPaymentId, wPay, wIdem, history>>

\* lines 180-207: get_or_create on the refund key, the replay of a COMPLETED
\* key, and the amount check; both returns leave the atomic block, which
\* commits what get_or_create inserted
refund_payment_get_or_create(p) ==
    /\ pc[p] = "refund_get_or_create"
    /\ ~UniqueKeyWait(loc[p].key, p)
    /\ LET key == loc[p].key
           payment == loc[p].payment
           created == key \notin DOMAIN idemKeys
           idem_key == IF created THEN NewIdempotencyKey(payment.payment_id)
                       ELSE idemKeys[key]
           inserted == IF created THEN key :> idem_key ELSE NoRows
           refund_amount == effective_amount(loc[p].request.amount, payment)
       IN /\ created_obs' = IF created THEN created_obs (+) SetToBag({key})
                            ELSE created_obs
          /\ IF ~created /\ idem_key.status = "COMPLETED"
             THEN /\ Return(p, Response("refund_already_processed", payment.payment_id))
                  /\ UNCHANGED <<idemKeys, wIdem>>
             ELSE IF exceeds_remaining(refund_amount, payment)
             THEN /\ Return(p, Response("invalid_amount", payment.payment_id))
                  /\ idemKeys' = inserted @@ idemKeys
                  /\ UNCHANGED wIdem
             ELSE /\ Goto(p, "refund_process")
                  /\ loc' = [loc EXCEPT ![p].idem = idem_key, ![p].created = created,
                               ![p].refund_amount = refund_amount]
                  /\ wIdem' = [wIdem EXCEPT ![p] = inserted]
                  /\ UNCHANGED idemKeys
    /\ UNCHANGED <<payments, events, nextPaymentId, wPay, calls, gateway_calls,
                   payment_key, refund_applied>>

\* lines 210-231: the local payment object is updated and saved, the key is
\* completed, the event is published, all inside the atomic block
refund_payment_process(p, broker_ok) ==
    /\ pc[p] = "refund_process"
    /\ ~PaymentRowLocked(loc[p].payment.payment_id, p)
    /\ ~IdemRowLocked(loc[p].key, p)
    /\ LET added == [loc[p].payment EXCEPT
                       !.refunded_amount = @ + loc[p].refund_amount]
           payment == [added EXCEPT !.status = refund_status(added)]
           idem_key == [loc[p].idem EXCEPT !.status = "COMPLETED"]
       IN /\ wPay' = [wPay EXCEPT ![p] = (payment.payment_id :> payment)]
          /\ wIdem' = [wIdem EXCEPT ![p] = (loc[p].key :> idem_key)]
          /\ publish_payment_event(
                 [event_type |-> "payment.refunded",
                  payment_id |-> payment.payment_id,
                  order_id |-> payment.order_id,
                  refund_amount |-> loc[p].refund_amount,
                  total_refunded |-> payment.refunded_amount,
                  via |-> loc[p].key], broker_ok)
          /\ loc' = [loc EXCEPT ![p].payment = payment, ![p].idem = idem_key,
                       ![p].code = "refund_processed"]
    /\ Goto(p, "refund_commit")
    /\ UNCHANGED <<store, nextPaymentId, calls, history>>

\* lines 235-239: the return leaves the atomic block, which commits
refund_payment_commit(p) ==
    /\ pc[p] = "refund_commit"
    /\ Commit(p)
    /\ refund_applied' = refund_applied (+) SetToBag({loc[p].key})
    /\ Return(p, Response(loc[p].code, loc[p].payment.payment_id))
    /\ UNCHANGED <<events, nextPaymentId, calls, gateway_calls, created_obs,
                   payment_key>>

refund_payment(p) ==
    \/ \E payment_id \in 1..MaxPayments, key \in RefundKeys, req \in RefundAmounts :
          refund_payment_load(p, payment_id, key, req)
    \/ refund_payment_get_or_create(p)
    \/ \E broker_ok \in BOOLEAN : refund_payment_process(p, broker_ok)
    \/ refund_payment_commit(p)

\* --------------------------------------- events.handle_order_cancellation ---

\* Payment.Meta.ordering = ['-created_at']: newest (highest id) first
RECURSIVE NewestFirst(_)
NewestFirst(rows) ==
    IF rows = {} THEN <<>>
    ELSE LET newest == CHOOSE r \in rows : \A o \in rows : o.payment_id <= r.payment_id
         IN <<newest>> \o NewestFirst(rows \ {newest})

\* lines 157-160: Payment.objects.filter(order_id=order_id, status='SUCCESS')
successful_payments(order_id) ==
    NewestFirst({payments[i] : i \in {j \in DOMAIN payments :
                    /\ payments[j].order_id = order_id
                    /\ payments[j].status = "SUCCESS"}})

\* lines 149-162: a message without order_id is dropped; otherwise the atomic
\* block is entered and the query is evaluated
handle_order_cancellation_query(p, order_id) ==
    /\ Enter(p)
    /\ IF order_id = 0
       THEN Return(p, Response("no_order_id", NoPayment))
       ELSE /\ Goto(p, "cancel_loop")
            /\ loc' = [loc EXCEPT ![p] = [IdleLoc EXCEPT
                   !.request = CancelledMessage(order_id),
                   !.todo = successful_payments(order_id)]]
    /\ UNCHANGED <<store, events, nextPaymentId, wPay, wIdem, history>>

\* lines 162-178: one turn of the loop
handle_order_cancellation_refund(p, broker_ok) ==
    /\ pc[p] = "cancel_loop"
    /\ loc[p].todo # <<>>
    /\ LET found == Head(loc[p].todo) IN
       IF found.refunded_amount < found.amount
       THEN LET refund_amount == found.amount - found.refunded_amount
                payment == [found EXCEPT !.refunded_amount = @ + refund_amount,
                                         !.status = "REFUNDED"]
            IN /\ ~PaymentRowLocked(payment.payment_id, p)
               /\ wPay' = [wPay EXCEPT ![p] = (payment.payment_id :> payment) @@ @]
               /\ publish_payment_event(
                      [event_type |-> "payment.refunded",
                       payment_id |-> payment.payment_id,
                       order_id |-> payment.order_id,
                       refund_amount |-> refund_amount,
                       via |-> "order.cancelled"], broker_ok)
       ELSE UNCHANGED <<wPay, events>>
    /\ loc' = [loc EXCEPT ![p].todo = Tail(@)]
    /\ response' = NoResponse
    /\ UNCHANGED <<store, nextPaymentId, pc, wIdem, calls, history>>

\* the loop is over: the atomic block commits and the handler returns
handle_order_cancellation_commit(p) ==
    /\ pc[p] = "cancel_loop"
    /\ loc[p].todo = <<>>
    /\ Commit(p)
    /\ Return(p, Response("handled", NoPayment))
    /\ UNCHANGED <<events, nextPaymentId, calls, history>>

handle_order_cancellation(p) ==
    \/ \E order_id \in CancelledOrders : handle_order_cancellation_query(p, order_id)
    \/ \E broker_ok \in BOOLEAN : handle_order_cancellation_refund(p, broker_ok)
    \/ handle_order_cancellation_commit(p)

\* ------------------------------------------------------------- the system ---
Next ==
    \E p \in Procs :
        \/ charge_payment(p)
        \/ refund_payment(p)
        \/ handle_order_cancellation(p)

Spec == Init /\ [][Next]_vars

\* ------------------------------------------------------ the store failing ---

\* the labels at which a worker is inside "with transaction.atomic()"
InTransaction ==
    {"charge_get_or_create", "charge_create", "charge_process", "charge_commit",
     "refund_get_or_create", "refund_process", "refund_commit", "cancel_loop"}

\* (mutant) the handlers without "with transaction.atomic()": what was written
\* before the exception stays written
store_failure_without_rollback(p) ==
    /\ pc[p] \in InTransaction
    /\ calls < MaxCalls
    /\ calls' = calls + 1
    /\ Commit(p)
    /\ Return(p, Response(IF pc[p] = "cancel_loop" THEN "cancellation_error"
                                                   ELSE "processing_error", NoPayment))
    /\ UNCHANGED <<events, nextPaymentId, history>>

\* an ORM call or the commit raises: the atomic block rolls back what the
\* transaction wrote, and "except Exception" answers processing_error (views.py
\* 140-145, 241-246) or logs (events.py 182-183); what was published stays
\* published and the gateway call stays made
store_failure(p) ==
    /\ pc[p] \in InTransaction
    /\ calls < MaxCalls
    /\ calls' = calls + 1
    /\ wPay' = [wPay EXCEPT ![p] = NoRows]
    /\ wIdem' = [wIdem EXCEPT ![p] = NoRows]
    /\ Return(p, Response(IF pc[p] = "cancel_loop" THEN "cancellation_error"
                                                   ELSE "processing_error", NoPayment))
    /\ UNCHANGED <<store, events, nextPaymentId, history>>

\* consume_order_events.callback, lines 120-123: basic_ack follows whenever
\* handle_order_cancellation returns, and it returns for a message without
\* order_id, after its commit, and after logging an exception of its block
basic_ack(r) == r.code \in {"no_order_id", "handled", "cancellation_error"}

NextFault ==
    \/ Next
    \/ \E p \in Procs : store_failure(p)

SpecFault == Init /\ [][NextFault]_vars

\* ------------------------------------------------- the ledger's keyspace ---

\* client keys ChargePaymentSerializer accepts (any string of 10..255
\* characters), one of them shaped like a refund key
KeyspaceChargeKeys == {"idem-key-a", "refund_1_idem-key-a"}

\* one worker, charges and refunds one after the other
NextKeyspace ==
    \E p \in {"w1"} :
        \/ \E order_id \in OrderIds, key \in KeyspaceChargeKeys :
              charge_payment_validate(p, order_id, MaxAmount, key)
        \/ charge_payment_get_or_create(p)
        \/ charge_payment_create(p)
        \/ \E success \in BOOLEAN, broker_ok \in BOOLEAN :
              charge_payment_process(p, success, broker_ok)
        \/ charge_payment_commit(p)
        \/ refund_payment(p)

SpecKeyspace == Init /\ [][NextKeyspace]_vars

\* ================================================================ claims ===

\* payment.refunded messages published through ledger key rk
RefundEventsVia(rk) ==
    BagCardinality([e \in {x \in DOMAIN events :
                            x.event_type = "payment.refunded" /\ x.via = rk} |-> events[e]])

RECURSIVE SumRefundAmounts(_)
SumRefundAmounts(msgs) ==
    IF msgs = {} THEN 0
    ELSE LET e == CHOOSE x \in msgs : TRUE
         IN e.refund_amount * events[e] + SumRefundAmounts(msgs \ {e})

\* the refund amounts announced by payment.refunded for payment i, summed
AnnouncedRefunds(i) ==
    SumRefundAmounts({x \in DOMAIN events :
                        x.event_type = "payment.refunded" /\ x.payment_id = i})

\* C1: for one idempotency key, at most one Payment row is ever created and
\* process_payment_gateway is invoked at most once, whatever the gateway answers.
C1_OnePaymentOneGatewayCallPerKey ==
    \A k \in ChargeKeys :
        /\ Cardinality({i \in DOMAIN payments : payment_key[i] = k}) <= 1
        /\ CopiesIn(k, gateway_calls) <= 1

\* C2: of the charge_payment calls racing on one new idempotency key exactly
\* one observes created=True, the ledger holds one row for the key, and every
\* other caller that got past get_or_create read the persisted row.
C2_ExactlyOneCreated ==
    \A k \in ChargeKeys :
        LET past == {q \in Procs : /\ pc[q] \in {"charge_create", "charge_process", "charge_commit"}
                                   /\ loc[q].key = k}
            inserting == {q \in Procs : k \in DOMAIN wIdem[q] /\ loc[q].created}
            rows == Cardinality(inserting) + (IF k \in DOMAIN idemKeys THEN 1 ELSE 0)
        IN /\ CopiesIn(k, created_obs) <= 1
           /\ (past # {} \/ k \in DOMAIN idemKeys) => CopiesIn(k, created_obs) = 1
           /\ rows <= 1
           /\ (past # {} \/ k \in DOMAIN idemKeys) => rows = 1
           /\ \A q \in past : ~loc[q].created => k \in DOMAIN idemKeys

\* C2 witness: one caller holds the key it created, uncommitted, while a second
\* caller with the same key is at get_or_create.
C2_Witness ==
    \E q, r \in Procs :
        /\ q # r
        /\ pc[r] \in {"charge_create", "charge_process", "charge_commit"}
        /\ loc[r].created
        /\ pc[q] = "charge_get_or_create"
        /\ loc[q].key = loc[r].key
        /\ UniqueKeyWait(loc[q].key, q)

\* C3: for one payment and one client idempotency key, the refund is applied
\* at most once and at most one payment.refunded message is published.
C3_RefundOncePerKey ==
    \A i \in 1..MaxPayments, k \in RefundKeys :
        /\ CopiesIn(refund_key(i, k), refund_applied) <= 1
        /\ RefundEventsVia(refund_key(i, k)) <= 1

\* C4: the refund amounts announced by payment.refunded for a payment never
\* add up to more than the payment's amount.
C4_AnnouncedRefundsWithinAmount ==
    \A i \in DOMAIN payments : AnnouncedRefunds(i) <= payments[i].amount

\* C5: every committed Payment has 0 <= refunded_amount <= amount.
C5_RefundedWithinAmount ==
    \A i \in DOMAIN payments :
        /\ 0 <= payments[i].refunded_amount
        /\ payments[i].refunded_amount <= payments[i].amount

\* C5 witness: a refund has just been committed and the payment is refunded
\* to its full amount.
C5_Witness ==
    /\ response.code = "refund_processed"
    /\ payments[response.payment_id].refunded_amount = payments[response.payment_id].amount

\* C6: the committed refunded_amount of a payment never decreases.
C6_RefundedNeverDecreases ==
    [][\A i \in DOMAIN payments :
           payments'[i].refunded_amount >= payments[i].refunded_amount]_vars

\* C7: a committed Payment is REFUNDED iff refunded_amount = amount, and
\* PARTIAL_REFUND iff 0 < refunded_amount < amount; SUCCESS, FAILED and
\* PENDING payments have refunded_amount = 0.
C7_StatusMatchesRefunded ==
    \A i \in DOMAIN payments :
        LET row == payments[i] IN
        /\ row.status = "REFUNDED" <=> row.refunded_amount = row.amount
        /\ row.status = "PARTIAL_REFUND" <=>
               (0 < row.refunded_amount /\ row.refunded_amount < row.amount)
        /\ row.status \in {"SUCCESS", "FAILED", "PENDING"} => row.refunded_amount = 0

\* C7 witness: a partial refund has just been committed.
C7_Witness ==
    /\ response.code = "refund_processed"
    /\ payments[response.payment_id].status = "PARTIAL_REFUND"
    /\ payments[response.payment_id].refunded_amount > 0

StatusEdges ==
    {<<"PENDING", "SUCCESS">>, <<"PENDING", "FAILED">>,
     <<"SUCCESS", "PARTIAL_REFUND">>, <<"SUCCESS", "REFUNDED">>,
     <<"PARTIAL_REFUND", "PARTIAL_REFUND">>, <<"PARTIAL_REFUND", "REFUNDED">>}

\* C8: the committed status of a Payment changes only along PENDING->SUCCESS,
\* PENDING->FAILED, SUCCESS->PARTIAL_REFUND, SUCCESS->REFUNDED,
\* PARTIAL_REFUND->PARTIAL_REFUND, PARTIAL_REFUND->REFUNDED.
C8_StatusEdges ==
    [][\A i \in DOMAIN payments :
           payments'[i].status # payments[i].status =>
               <<payments[i].status, payments'[i].status>> \in StatusEdges]_vars

\* C9: a refund_payment call on a PARTIAL_REFUND payment, with a new
\* idempotency key and the amount that remains, is not turned away as
\* invalid_status (it goes on to refund the rest).
C9_PartialRefundIsRefundable ==
    [][\A p \in Procs, i \in DOMAIN payments, k \in RefundKeys :
           (/\ payments[i].status = "PARTIAL_REFUND"
            /\ refund_key(i, k) \notin DOMAIN idemKeys
            /\ refund_payment_load(p, i, k,
                   {payments[i].amount - payments[i].refunded_amount}))
           => response'.code # "invalid_status"]_vars

\* C10: a refund_payment call answered invalid_amount leaves the Payment rows,
\* the IdempotencyKey rows and the published events as they were.
C10_RejectedRefundMutatesNothing ==
    [][\A p \in Procs :
           (refund_payment_get_or_create(p) /\ response'.code = "invalid_amount")
           => (payments' = payments /\ idemKeys' = idemKeys /\ events' = events)]_vars

\* C11: a well-formed refund_payment call on a FAILED or PENDING payment can
\* only be answered invalid_status, one on an unknown payment_id only
\* not_found, and either leaves the Payment rows, the ledger, the open
\* transactions and the published events as they were.
C11_NonRefundableRejected ==
    \A p \in Procs, i \in 1..MaxPayments :
        (/\ pc[p] = "idle"
         /\ i \in DOMAIN payments => payments[i].status \in {"FAILED", "PENDING"})
        => \A k \in RefundKeys, req \in RefundAmounts :
               RefundPaymentSerializer_is_valid(req) =>
                   ~ENABLED (/\ refund_payment_load(p, i, k, req)
                             /\ ~(/\ response'.code =
                                        IF i \in DOMAIN payments THEN "invalid_status"
                                                                  ELSE "not_found"
                                  /\ UNCHANGED <<payments, idemKeys, events, wPay, wIdem>>))

\* C11 witness: a refund of a FAILED payment has just been turned away.
C11_Witness ==
    /\ response.code = "invalid_status"
    /\ payments[response.payment_id].status = "FAILED"

\* the payment.refunded message handle_order_cancellation publishes for a row
CancellationRefunded(found) ==
    [event_type |-> "payment.refunded", payment_id |-> found.payment_id,
     order_id |-> found.order_id, refund_amount |-> found.amount,
     via |-> "order.cancelled"]

\* C12: handling order.cancelled takes the SUCCESS payments of the order, sets
\* each one that has refunded_amount 0 to REFUNDED with refunded_amount = amount
\* and publishes exactly one payment.refunded with refund_amount = amount for
\* it; a handling that finds no SUCCESS payment (the redelivery) changes no
\* payment and publishes nothing.
C12_CancellationRefundsOnce ==
    [][\A p \in Procs :
           /\ \A o \in OrderIds :
                 handle_order_cancellation_query(p, o) =>
                     /\ \A n \in 1..Len(loc'[p].todo) : loc'[p].todo[n].status = "SUCCESS"
                     /\ \A i \in DOMAIN payments :
                           (payments[i].order_id = o /\ payments[i].status = "SUCCESS")
                           => \E n \in 1..Len(loc'[p].todo) : loc'[p].todo[n] = payments[i]
           /\ ((\E b \in BOOLEAN : handle_order_cancellation_refund(p, b))
                /\ Head(loc[p].todo).refunded_amount = 0)
              => LET found == Head(loc[p].todo) IN
                 /\ wPay'[p][found.payment_id] =
                        [found EXCEPT !.status = "REFUNDED", !.refunded_amount = found.amount]
                 /\ events' = events (+) SetToBag({CancellationRefunded(found)})
           /\ (handle_order_cancellation_commit(p) /\ wPay[p] = NoRows)
              => (payments' = payments /\ events' = events)]_vars

\* C13: an IdempotencyKey row whose status is COMPLETED or FAILED keeps its
\* status and its linked payment from then on.
C13_TerminalKeyNeverChanges ==
    [][\A k \in DOMAIN idemKeys :
           idemKeys[k].status \in {"COMPLETED", "FAILED"} => idemKeys'[k] = idemKeys[k]]_vars

\* C14: no committed Payment is PENDING, whether the charge's unit of work
\* committed or was rolled back.
C14_NoCommittedPending ==
    \A i \in DOMAIN payments : payments[i].status # "PENDING"

\* C14 witness: a unit of work has just been rolled back, and a payment_id the
\* sequence handed out belongs to no committed row and to no open transaction.
C14_Witness ==
    /\ response.code = "processing_error"
    /\ \E i \in 1..(nextPaymentId - 1) :
          /\ i \notin DOMAIN payments
          /\ \A q \in Procs : i \notin DOMAIN wPay[q]

\* the event that announces payment i's creation outcome / its refund is there
ChargeAnnounced(i) ==
    \E e \in DOMAIN events :
        /\ e.payment_id = i
        /\ e.event_type = IF payments[i].status = "FAILED" THEN "payment.failed"
                                                           ELSE "payment.succeeded"

RefundAnnounced(i) ==
    \E e \in DOMAIN events : e.payment_id = i /\ e.event_type = "payment.refunded"

\* the messages published by the step
Published == {e \in DOMAIN events' : CopiesIn(e, events') > CopiesIn(e, events)}

\* payment.succeeded / payment.failed is published by the charge that creates
\* the payment, before it commits, and by nothing else; payment.refunded by the
\* step that writes the refund, and by nothing else
PublishedOnlyByTheTransition ==
    [][\A e \in Published :
           \E p \in Procs :
               /\ e.payment_id \in DOMAIN wPay'[p]
               /\ pc[p] \in {"charge_process", "refund_process", "cancel_loop"}
               /\ wPay'[p] # wPay[p]]_vars

\* C15: once the handlers have returned, every committed transition of a
\* payment (to SUCCESS, FAILED, PARTIAL_REFUND or REFUNDED) has its event on
\* the exchange, whether or not the broker was reachable at the time.
C15_TransitionsAnnounced ==
    (\A p \in Procs : pc[p] = "idle") =>
        \A i \in DOMAIN payments :
            /\ ChargeAnnounced(i)
            /\ payments[i].status \in {"PARTIAL_REFUND", "REFUNDED"} => RefundAnnounced(i)

\* the steps that call publish_payment_event
PublishingStep(p, broker_ok) ==
    \/ \E success \in BOOLEAN : charge_payment_process(p, success, broker_ok)
    \/ refund_payment_process(p, broker_ok)
    \/ handle_order_cancellation_refund(p, broker_ok)

\* C16: whatever publish_payment_event returns, the handler goes on the same
\* way: the step taken with one result of the publication is also possible
\* with the other, and ends with the same rows written, the same locals and
\* the same answer prepared; only the exchange differs.
C16_PublishFailureChangesNothing ==
    [][\A p \in Procs, b \in BOOLEAN :
           PublishingStep(p, b) =>
               \E after \in {<<payments, idemKeys, wPay, wIdem, pc, loc, response,
                               nextPaymentId, calls, history>>'} :
                   ENABLED (/\ PublishingStep(p, ~b)
                            /\ <<payments, idemKeys, wPay, wIdem, pc, loc, response,
                                  nextPaymentId, calls, history>>' = after)]_vars

\* C16 witness: a charge has committed SUCCESS and answered payment_successful
\* although its payment.succeeded was not published.
C16_Witness ==
    /\ response.code = "payment_successful"
    /\ payments[response.payment_id].status = "SUCCESS"
    /\ ~ChargeAnnounced(response.payment_id)

\* C17: once the handlers have returned, every event on the exchange announces
\* a committed transition: none announces one that was rolled back.
C17_NoEventForRolledBack ==
    (\A p \in Procs : pc[p] = "idle") =>
        \A e \in DOMAIN events :
            /\ e.payment_id \in DOMAIN payments
            /\ e.event_type = "payment.refunded" =>
                  payments[e.payment_id].status \in {"PARTIAL_REFUND", "REFUNDED"}

\* C18: however handle_order_cancellation runs interleave, at most one
\* payment.refunded is published per payment by cancellation handling.
C18_OneCancellationRefundPerPayment ==
    \A i \in DOMAIN payments : CopiesIn(CancellationRefunded(payments[i]), events) <= 1

\* C19: no key accepted by a charge equals the ledger key of a refund, and the
\* refund ledger keys of two different payments differ.
C19_KeyspacePartitioned ==
    /\ \A c \in DOMAIN payment_key, i \in 1..MaxPayments, k \in RefundKeys :
          payment_key[c] # refund_key(i, k)
    /\ \A i, j \in 1..MaxPayments, k, l \in RefundKeys :
          i # j => refund_key(i, k) # refund_key(j, l)

\* C20: a charge_payment call that finds its key COMPLETED with a linked
\* payment answers with that payment, creates no Payment, does not call the
\* gateway, publishes nothing and writes no row.
C20_ReplayIsPure ==
    [][\A p \in Procs :
           (/\ charge_payment_get_or_create(p)
            /\ loc[p].key \in DOMAIN idemKeys
            /\ idemKeys[loc[p].key].status = "COMPLETED"
            /\ idemKeys[loc[p].key].payment # NoPayment)
           => /\ response' = Response("already_processed", idemKeys[loc[p].key].payment)
              /\ response'.payment_id \in DOMAIN payments
              /\ UNCHANGED <<payments, idemKeys, events, nextPaymentId, gateway_calls,
                             wPay, wIdem>>]_vars

\* C20 witness: a charge has just been answered with the payment of its key.
C20_Witness ==
    /\ response.code = "already_processed"
    /\ \E k \in DOMAIN idemKeys :
          idemKeys[k].status = "COMPLETED" /\ idemKeys[k].payment = response.payment_id

\* C21: a well-formed refund_payment call for a payment left in PARTIAL_REFUND
\* by a refund whose ledger key is COMPLETED, repeated with that same key, is
\* not answered with an error, and changes no Payment row.
C21_CompletedRefundReplays ==
    \A p \in Procs, i \in DOMAIN payments, k \in RefundKeys :
        (/\ pc[p] = "idle"
         /\ payments[i].status = "PARTIAL_REFUND"
         /\ refund_key(i, k) \in DOMAIN idemKeys
         /\ idemKeys[refund_key(i, k)].status = "COMPLETED")
        => \A req \in RefundAmounts :
               RefundPaymentSerializer_is_valid(req) =>
                   ~ENABLED (/\ refund_payment_load(p, i, k, req)
                             /\ ~(/\ response'.code \notin
                                        {"invalid_status", "not_found", "validation_error"}
                                  /\ payments' = payments))

\* the payments the cancellation handler of p took from its query: those it
\* has refunded in its transaction and those still to do
Derived(p) ==
    DOMAIN wPay[p] \cup {loc[p].todo[n].payment_id : n \in 1..Len(loc[p].todo)}

\* C22: when the consumer acknowledges an order.cancelled message, no payment
\* its handling took from the query is still committed as SUCCESS with
\* refunded_amount < amount.
C22_AckOnlyAfterRefunds ==
    [][\A p \in Procs :
           (pc[p] = "cancel_loop" /\ pc'[p] = "idle" /\ basic_ack(response'))
           => \A i \in Derived(p) :
                  ~(/\ payments'[i].status = "SUCCESS"
                    /\ payments'[i].refunded_amount < payments'[i].amount)]_vars

\* the labels of charge_payment inside its atomic block
ChargeInTransaction ==
    {"charge_get_or_create", "charge_create", "charge_process", "charge_commit"}

\* C23: an exception inside the charge's atomic block is answered
\* processing_error and leaves the store as it was: the Payment and the
\* IdempotencyKey row the call created are in no table and in no transaction.
C23_AbortedChargeLeavesNothing ==
    [][\A p \in Procs :
           (pc[p] \in ChargeInTransaction /\ store_failure(p))
           => /\ response'.code = "processing_error"
              /\ payments' = payments /\ idemKeys' = idemKeys
              /\ \A i \in DOMAIN wPay[p] :
                    i \notin DOMAIN payments' /\ \A q \in Procs : i \notin DOMAIN wPay'[q]
              /\ loc[p].created =>
                    /\ loc[p].key \notin DOMAIN idemKeys'
                    /\ \A q \in Procs : loc[p].key \notin DOMAIN wIdem'[q]]_vars

\* C23 witness: a charge has been answered successfully for a key that
\* get_or_create created twice: the first creation was rolled back and a later
\* call saw the key as new.
C23_Witness ==
    /\ response.code = "payment_successful"
    /\ \E k \in ChargeKeys :
          /\ CopiesIn(k, created_obs) = 2
          /\ k \in DOMAIN idemKeys
          /\ idemKeys[k].payment = response.payment_id

====
